---- MODULE Spec2Model ----
(***************************************************************************)
(* A model of the CustomRedux store (createStore, combineReducers) and of  *)
(* the Connect binding.  JavaScript values are tagged records; a store is  *)
(* a record of the closure variables of createStore; one synchronous call  *)
(* of the library (dispatch with its whole notification pass, subscribe,   *)
(* an unsubscribe handle, an effect of Connect) is one action.             *)
(***************************************************************************)
EXTENDS Integers, Sequences, FiniteSets, TLC

\* ------------------------------------------------------------------ bounds

\* Largest counter value a reducer may produce (dispatches beyond are not taken).
MaxCount == 2
\* Number of subscribe calls made on the stores in one run.
MaxSubs == 3
\* Number of forced re-renders a wrapper may request in one run.
MaxForce == 2

\* -------------------------------------------------------- JavaScript values

Undefined == [t |-> "undefined"]
Null == [t |-> "null"]
Num(n) == [t |-> "number", n |-> n]
Str(s) == [t |-> "string", s |-> s]
Bool(b) == [t |-> "boolean", b |-> b]
\* An object literal with one own field `type` (Undefined: the field is absent).
Action(type) == [t |-> "object", type |-> type]
\* A function (dispatch, getState) => { acts.forEach(dispatch); return ret }
Thunk(acts, ret) == [t |-> "function", acts |-> acts, ret |-> ret]
\* An object with identity `ref` and own enumerable fields `fs` (key -> value).
Obj(ref, fs) == [t |-> "object", ref |-> ref, fs |-> fs]

\* The typeof operator.
TypeOf(v) == IF v.t = "null" THEN "object" ELSE v.t

\* Object.is on the values of the model: objects by reference, others by value.
ObjectIs(a, b) ==
    IF a.t # b.t THEN FALSE
    ELSE IF a.t = "object" THEN a.ref = b.ref
    ELSE a = b

\* The least reference not in `used`: a newly created object.
FreshRef(used) == CHOOSE r \in 1..(Cardinality(used) + 1) : r \notin used

\* ------------------------------------------------------------ error values

NoError == "none"
\* new Error('Action should be plain object')
InvalidActionShape == "Action should be plain object"
\* new Error('Action must have a type')
MissingActionType == "Action must have a type"
\* The TypeError of reading a property of undefined or null.
TypeError == "TypeError"
\* new Error(...) thrown by a reducer of the application, and by a listener.
ReducerError == "reducer error"
ListenerError == "listener error"

\* { type: '@INIT' }
InitAction == Action(Str("@INIT"))

\* The references of the objects reachable from value v.
RECURSIVE Refs(_)
Refs(v) ==
    IF "ref" \in DOMAIN v
    THEN {v.ref} \cup UNION {Refs(v.fs[k]) : k \in DOMAIN v.fs}
    ELSE {}

\* ---------------------------------------------------------------- reducers

\* The result of calling a function: a returned value or a thrown error.
Return(v) == [ok |-> TRUE, val |-> v, err |-> NoError]
Throw(e) == [ok |-> FALSE, val |-> Undefined, err |-> e]

\* action.type === name
TypeIs(action, name) == action.type = Str(name)

\* const counterReducer = (state = { count: 0 }, action) => { switch ... }
\* `used` are the references of the live objects: a new object gets another.
counterReducer(state, action, used) ==
    LET s == IF state.t = "undefined"
             THEN Obj(FreshRef(used), [count |-> Num(0)])
             ELSE state
        u == used \cup {s.ref}
    IN  IF TypeIs(action, "INCREMENT")
        THEN Obj(FreshRef(u), [s.fs EXCEPT !.count = Num(s.fs.count.n + 1)])
        ELSE IF TypeIs(action, "DECREMENT")
        THEN Obj(FreshRef(u), [s.fs EXCEPT !.count = Num(s.fs.count.n - 1)])
        ELSE s

\* A reducer over a primitive: (state = false, action) =>
\*   action.type === 'TOGGLE' ? !state : state
toggleReducer(state, action) ==
    LET s == IF state.t = "undefined" THEN Bool(FALSE) ELSE state
    IN  IF TypeIs(action, "TOGGLE") THEN Bool(~s.b) ELSE s

\* A reducer over a number: (state = 0, action) =>
\*   action.type === 'INCREMENT' ? state + 1 : state
numberReducer(state, action) ==
    LET s == IF state.t = "undefined" THEN Num(0) ELSE state
    IN  IF TypeIs(action, "INCREMENT") THEN Num(s.n + 1) ELSE s

\* A reducer that rejects what it does not know: (state = 0, action) => {
\*   switch (action.type) { case '@INIT': return state;
\*     case 'INCREMENT': return state + 1;
\*     default: throw new Error(...) } }
strictReducer(state, action) ==
    LET s == IF state.t = "undefined" THEN Num(0) ELSE state
    IN  IF TypeIs(action, "@INIT") THEN Return(s)
        ELSE IF TypeIs(action, "INCREMENT") THEN Return(Num(s.n + 1))
        ELSE Throw(ReducerError)

\* A call of one of the application's reducers, by name.
LeafReducer(name, state, action, used) ==
    IF name = "counterReducer" THEN counterReducer(state, action, used)
    ELSE IF name = "numberReducer" THEN numberReducer(state, action)
    ELSE toggleReducer(state, action)

\* state[item]: the own field, undefined when the object has none of that name.
GetField(state, item) ==
    IF "fs" \in DOMAIN state /\ item \in DOMAIN state.fs
    THEN state.fs[item]
    ELSE Undefined

\* Object.keys(reducers).forEach(item =>
\*     newStore[item] = reducers[item](state[item], action)), from key i on.
\* reducers is the sequence of [key, reducer] in Object.keys order.
RECURSIVE forEachReducer(_, _, _, _, _, _)
forEachReducer(reducers, state, action, i, newStore, used) ==
    IF i > Len(reducers) THEN newStore
    ELSE LET item == reducers[i].key
             v == LeafReducer(reducers[i].reducer, GetField(state, item),
                              action, used)
         IN  forEachReducer(reducers, state, action, i + 1,
                            [newStore EXCEPT !.fs = @ @@ (item :> v)],
                            used \cup Refs(v))

\* No own fields.
NoFields == [k \in {} |-> Undefined]

\* Mutant of mainReducer: the state object itself is returned when no slice
\* changed.
mainReducer_Memo(reducers, state, action, used) ==
    IF Len(reducers) > 0 /\ state.t \in {"undefined", "null"}
    THEN Throw(TypeError)
    ELSE LET ref == FreshRef(used)
             newStore == forEachReducer(reducers, state, action, 1,
                                        Obj(ref, NoFields), used \cup {ref})
         IN  IF "fs" \in DOMAIN state /\ DOMAIN state.fs = DOMAIN newStore.fs
                /\ \A k \in DOMAIN state.fs :
                      ObjectIs(state.fs[k], newStore.fs[k])
             THEN Return(state)
             ELSE Return(newStore)

\* Mutant of mainReducer: the new object starts as a copy of the state,
\* { ...state }, so that a key without a reducer is kept.
mainReducer_Spread(reducers, state, action, used) ==
    IF Len(reducers) > 0 /\ state.t \in {"undefined", "null"}
    THEN Throw(TypeError)
    ELSE LET ref == FreshRef(used)
             newStore == forEachReducer(reducers, state, action, 1,
                                        Obj(ref, NoFields), used \cup {ref})
         IN  IF "fs" \in DOMAIN state
             THEN Return([newStore EXCEPT !.fs = @ @@ state.fs])
             ELSE Return(newStore)

\* combineReducers(reducers)(state, action): the mainReducer.
mainReducer(reducers, state, action, used) ==
    IF Len(reducers) > 0 /\ state.t \in {"undefined", "null"}
    THEN Throw(TypeError)
    ELSE LET ref == FreshRef(used)
         IN  Return(forEachReducer(reducers, state, action, 1,
                                   Obj(ref, NoFields), used \cup {ref}))

\* A reducer is one of the application's, or one made by combineReducers.
Leaf(name) == [name |-> name, kind |-> "leaf"]
combineReducers(reducers) == [reducers |-> reducers, kind |-> "combined"]

\* rootReducer(currentState, action)
Reduce(rootReducer, state, action, used) ==
    IF rootReducer.kind = "combined"
    THEN mainReducer(rootReducer.reducers, state, action, used)
    ELSE IF rootReducer.name = "strictReducer"
    THEN strictReducer(state, action)
    ELSE Return(LeafReducer(rootReducer.name, state, action, used))

\* -------------------------------------------------------------- the binding

\* Object.keys(obj)
Keys(obj) == DOMAIN obj.fs

\* Mutant of shallowEqual: the numbers of keys are not compared.
shallowEqual_NoLengthCheck(objA, objB) ==
    IF ObjectIs(objA, objB) THEN TRUE
    ELSE IF TypeOf(objA) # "object" \/ objA.t = "null"
            \/ TypeOf(objB) # "object" \/ objB.t = "null" THEN FALSE
    ELSE \A k \in Keys(objA) :
            k \in Keys(objB) /\ ObjectIs(objA.fs[k], objB.fs[k])

\* shallowEqual(objA, objB) of Connect.
shallowEqual(objA, objB) ==
    IF ObjectIs(objA, objB) THEN TRUE
    ELSE IF TypeOf(objA) # "object" \/ objA.t = "null"
            \/ TypeOf(objB) # "object" \/ objB.t = "null" THEN FALSE
    ELSE IF Cardinality(Keys(objA)) # Cardinality(Keys(objB)) THEN FALSE
    ELSE \A k \in Keys(objA) :
            k \in Keys(objB) /\ ObjectIs(objA.fs[k], objB.fs[k])

\* mapStateToProps of the application: (state) => ({ count: state })
mstp(state, used) == Obj(FreshRef(used), [count |-> state])

\* Mutant of connectListener: the retained props are compared by identity
\* only, so every notification forces a render.
connectListener_NoShallow(wrapper, state, used) ==
    LET newState == mstp(state, used)
    IN  IF ~ObjectIs(newState, wrapper.previousStateRef)
        THEN [wrapper EXCEPT !.previousStateRef = newState,
                             !.forceCount = @ + 1,
                             !.renderPending = TRUE]
        ELSE wrapper

\* The listener Connect subscribes in its effect, run against the state of
\* the store it closed over:
\*     const newState = mstp(store.getState());
\*     if (!shallowEqual(newState, previousStateRef.current)) {
\*         previousStateRef.current = newState; forComponentUpdate() }
\* forComponentUpdate() adds one to the useReducer counter and asks for a render.
connectListener(wrapper, state, used) ==
    LET newState == mstp(state, used)
    IN  IF ~shallowEqual(newState, wrapper.previousStateRef)
        THEN [wrapper EXCEPT !.previousStateRef = newState,
                             !.forceCount = @ + 1,
                             !.renderPending = TRUE]
        ELSE wrapper

\* ---------------------------------------------------------------- the store

\* A listener function of the application, and the one a Connect wrapper makes.
PlainListener(id) == [kind |-> "plain", id |-> id]
ConnectListener(id) == [kind |-> "connect", id |-> id]
\* () => { throw new Error(...) }
ThrowingListener(id) == [kind |-> "throwing", id |-> id]
\* () => { unsubscribe && unsubscribe() }, for the variable that holds what
\* the h-th subscribe call returns.
UnsubscribingListener(id, h) == [kind |-> "unsubscribing", id |-> id, h |-> h]
\* () => { if (store.getState() === when) store.dispatch(action) }
DispatchingListener(id, when, action) ==
    [action |-> action, kind |-> "dispatching", id |-> id, when |-> when]

\* subscribe(listener): listeners.push(listener).  reg numbers the subscribe
\* call that made the entry; no code reads it.
subscribe(store, listener, reg) ==
    [store EXCEPT !.listeners = Append(@, [reg |-> reg, fn |-> listener])]

\* unSubscribe(): listeners = listeners.filter(item => item !== listener)
unSubscribe(store, listener) ==
    [store EXCEPT !.listeners = SelectSeq(@, LAMBDA item : item.fn # listener)]

\* What one synchronous call works on: the store, the wrapper its listeners
\* may write, the references in use elsewhere, the unSubscribe functions
\* returned so far, and a record of what happened: the actions the reducer
\* received, the list entries invoked, the functions called as thunks, what
\* getState() returned at each invocation, the unSubscribe functions called
\* (at: the number of invocations begun before), the error thrown and the
\* value returned.
World(store, wrapper, live) ==
    [ret |-> Undefined, err |-> NoError,
     wrapper |-> wrapper, store |-> store, live |-> live,
     reducerLog |-> <<>>, callLog |-> <<>>, thunkLog |-> <<>>,
     handles |-> <<>>, stateLog |-> <<>>, unsubLog |-> <<>>]

\* The references in use when a call allocates.
Used(w) ==
    Refs(w.store.currentState) \cup Refs(w.wrapper.previousStateRef)
        \cup Refs(w.wrapper.stateProps) \cup w.live

\* dispatch(action)
RECURSIVE dispatch(_, _)

\* listener()
invoke(w, item) ==
    LET logged == [w EXCEPT !.callLog = Append(@, item),
                            !.stateLog = Append(@, w.store.currentState)]
        fn == item.fn
    IN  IF fn.kind = "connect"
        THEN [logged EXCEPT
                !.wrapper = connectListener(@, w.store.currentState, Used(w))]
        ELSE IF fn.kind = "throwing"
        THEN [logged EXCEPT !.err = ListenerError]
        ELSE IF fn.kind = "unsubscribing"
        THEN IF fn.h > Len(w.handles) THEN logged
             ELSE [logged EXCEPT
                     !.store = unSubscribe(@, w.handles[fn.h].listener),
                     !.handles[fn.h].called = TRUE,
                     !.unsubLog = Append(@, [h |-> fn.h,
                                             at |-> Len(logged.callLog)])]
        ELSE IF fn.kind = "dispatching" /\ w.store.currentState = fn.when
        THEN dispatch(logged, fn.action)
        ELSE logged

\* Mutant of forEachListener: an error thrown by a listener does not end the
\* loop.
RECURSIVE forEachListener_Isolated(_, _, _)
forEachListener_Isolated(w, array, i) ==
    IF i > Len(array) THEN w
    ELSE forEachListener_Isolated(invoke(w, array[i]), array, i + 1)

\* listeners.forEach(listener => listener()) over the array it was called on,
\* from index i; an error thrown by a listener ends the loop.
RECURSIVE forEachListener(_, _, _)
forEachListener(w, array, i) ==
    IF i > Len(array) \/ w.err # NoError THEN w
    ELSE forEachListener(invoke(w, array[i]), array, i + 1)

\* Mutant of reduceAndNotify: the new state is computed and never assigned.
reduceAndNotify_NoAssign(w, action) ==
    LET r == Reduce(w.store.rootReducer, w.store.currentState, action, Used(w))
        called == [w EXCEPT !.reducerLog = Append(@, action)]
    IN  IF ~r.ok THEN [called EXCEPT !.err = r.err]
        ELSE LET notified == forEachListener(called, called.store.listeners, 1)
             IN  IF notified.err # NoError THEN notified
                 ELSE [notified EXCEPT !.ret = action]

\* Mutant of reduceAndNotify: the state computed before the notification pass
\* is assigned once more after it.
reduceAndNotify_Reassign(w, action) ==
    LET r == Reduce(w.store.rootReducer, w.store.currentState, action, Used(w))
        called == [w EXCEPT !.reducerLog = Append(@, action)]
    IN  IF ~r.ok THEN [called EXCEPT !.err = r.err]
        ELSE LET replaced == [called EXCEPT !.store.currentState = r.val]
                 notified == forEachListener(replaced,
                                             replaced.store.listeners, 1)
             IN  IF notified.err # NoError THEN notified
                 ELSE [notified EXCEPT !.store.currentState = r.val,
                                       !.ret = action]

\* Mutant of reduceAndNotify: the listeners are notified also when the reducer
\* threw (a notification in a finally block).
reduceAndNotify_NotifyAlways(w, action) ==
    LET r == Reduce(w.store.rootReducer, w.store.currentState, action, Used(w))
        called == [w EXCEPT !.reducerLog = Append(@, action)]
    IN  IF ~r.ok
        THEN [forEachListener(called, called.store.listeners, 1)
                EXCEPT !.err = r.err]
        ELSE LET replaced == [called EXCEPT !.store.currentState = r.val]
                 notified == forEachListener(replaced,
                                             replaced.store.listeners, 1)
             IN  IF notified.err # NoError THEN notified
                 ELSE [notified EXCEPT !.ret = action]

\* Mutant of reduceAndNotify: the listeners are notified before the new state
\* is assigned.
reduceAndNotify_NotifyFirst(w, action) ==
    LET r == Reduce(w.store.rootReducer, w.store.currentState, action, Used(w))
        called == [w EXCEPT !.reducerLog = Append(@, action)]
    IN  IF ~r.ok THEN [called EXCEPT !.err = r.err]
        ELSE LET notified == forEachListener(called, called.store.listeners, 1)
             IN  IF notified.err # NoError THEN notified
                 ELSE [notified EXCEPT !.store.currentState = r.val,
                                       !.ret = action]

\* const newState = rootReducer(currentState, action);
\* currentState = newState
\* listeners.forEach(listener => listener())
\* return action
reduceAndNotify(w, action) ==
    LET r == Reduce(w.store.rootReducer, w.store.currentState, action, Used(w))
        called == [w EXCEPT !.reducerLog = Append(@, action)]
    IN  IF ~r.ok THEN [called EXCEPT !.err = r.err]
        ELSE LET replaced == [called EXCEPT !.store.currentState = r.val]
                 notified == forEachListener(replaced,
                                             replaced.store.listeners, 1)
             IN  IF notified.err # NoError THEN notified
                 ELSE [notified EXCEPT !.ret = action]

\* action(dispatch, getState), for the function that dispatches action.acts
\* from index i on and then returns action.ret.
RECURSIVE callThunk(_, _, _)
callThunk(w, action, i) ==
    IF w.err # NoError THEN w
    ELSE IF i > Len(action.acts) THEN [w EXCEPT !.ret = action.ret]
    ELSE callThunk(dispatch(w, action.acts[i]), action, i + 1)

\* Mutant of dispatch: the type of the action is checked after the reducer ran.
dispatch_LateTypeCheck(w, action) ==
    IF w.store.middleware /\ TypeOf(action) = "function"
    THEN callThunk([w EXCEPT !.thunkLog = Append(@, action)], action, 1)
    ELSE IF TypeOf(action) # "object"
    THEN [w EXCEPT !.err = InvalidActionShape]
    ELSE IF action.t = "null"
    THEN [w EXCEPT !.err = TypeError]
    ELSE IF TypeOf(action.type) = "undefined"
    THEN [reduceAndNotify(w, action) EXCEPT !.err = MissingActionType]
    ELSE reduceAndNotify(w, action)

\* Mutant of dispatch: a function action is run and then the listeners are
\* notified, as for a plain action.
dispatch_ThunkNotifies(w, action) ==
    IF w.store.middleware /\ TypeOf(action) = "function"
    THEN LET ran == callThunk([w EXCEPT !.thunkLog = Append(@, action)],
                              action, 1)
         IN  [forEachListener(ran, ran.store.listeners, 1)
                EXCEPT !.ret = action.ret]
    ELSE IF TypeOf(action) # "object"
    THEN [w EXCEPT !.err = InvalidActionShape]
    ELSE IF action.t = "null"
    THEN [w EXCEPT !.err = TypeError]
    ELSE IF TypeOf(action.type) = "undefined"
    THEN [w EXCEPT !.err = MissingActionType]
    ELSE reduceAndNotify(w, action)

dispatch(w, action) ==
    IF w.store.middleware /\ TypeOf(action) = "function"
    THEN callThunk([w EXCEPT !.thunkLog = Append(@, action)], action, 1)
    ELSE IF TypeOf(action) # "object"
    THEN [w EXCEPT !.err = InvalidActionShape]
    ELSE IF action.t = "null"
    THEN [w EXCEPT !.err = TypeError]
    ELSE IF TypeOf(action.type) = "undefined"
    THEN [w EXCEPT !.err = MissingActionType]
    ELSE reduceAndNotify(w, action)

\* createStore(reducer, initialState, middleware): the closure variables, then
\* dispatch({ type: '@INIT' }).  middleware is TRUE when one was given.
createStore(reducer, initialState, middleware, wrapper, live) ==
    dispatch(World([rootReducer |-> reducer, listeners |-> <<>>,
                    currentState |-> initialState,
                    middleware |-> middleware],
                   wrapper, live),
             InitAction)

\* ------------------------------------------------------------------- state

VARIABLES
    stores,     \* store id -> the closure variables of that createStore call
    handles,    \* the unSubscribe functions returned so far, in order
    wrapper,    \* the one instance of a Connect wrapper component
    last        \* the latest call of the library and what it did

vars == <<stores, handles, wrapper, last>>

StoreIds == {1, 2}

\* No createStore call yet for that id.
NoStore == [created |-> FALSE]
\* A store as createStore leaves it.
Created(store) ==
    [rootReducer |-> store.rootReducer, listeners |-> store.listeners,
     currentState |-> store.currentState, middleware |-> store.middleware,
     created |-> TRUE]

\* No wrapper instance is mounted and none was.
NoWrapper ==
    [previousStateRef |-> Undefined, forceCount |-> 0,
     renderPending |-> FALSE, store |-> 0, stateProps |-> Undefined,
     mounted |-> FALSE, effectPending |-> FALSE, unsubscribe |-> 0]

\* The references of the objects the program holds.
LiveRefs ==
    UNION {Refs(stores[s].currentState) : s \in {x \in StoreIds : stores[x].created}}
        \cup Refs(wrapper.previousStateRef) \cup Refs(wrapper.stateProps)

\* The record of a call: the operation, the store, its argument, the store and
\* the wrapper as they were before it, and what the call logged.
Last(op, s, arg, w) ==
    [s |-> s, ret |-> w.ret, err |-> w.err, reducerLog |-> w.reducerLog,
     callLog |-> w.callLog, thunkLog |-> w.thunkLog,
     stateLog |-> w.stateLog, unsubLog |-> w.unsubLog,
     op |-> op, arg |-> arg, pre |-> stores[s], wrapperBefore |-> wrapper,
     handlesBefore |-> handles]

\* A call that logs nothing.
Quiet == World(NoStore, NoWrapper, {})

\* Every counter of value v is within the bound.
RECURSIVE CountOK(_)
CountOK(v) ==
    IF v.t = "number" THEN v.n \in 0..MaxCount
    ELSE IF "fs" \in DOMAIN v THEN \A k \in DOMAIN v.fs : CountOK(v.fs[k])
    ELSE TRUE

Init ==
    /\ stores = [s \in StoreIds |-> NoStore]
    /\ handles = <<>>
    /\ wrapper = NoWrapper
    /\ last = [op |-> "none"]

\* ----------------------------------------------------------------- actions

\* const store = createStore(reducer, initialState, middleware)
\* A constructor that throws leaves no store.
CreateStore(s, reducer, initialState, middleware) ==
    /\ ~stores[s].created
    /\ LET w == createStore(reducer, initialState, middleware, wrapper,
                            LiveRefs \cup Refs(initialState))
       IN  /\ CountOK(w.store.currentState)
           /\ stores' = [stores EXCEPT
                            ![s] = IF w.err = NoError THEN Created(w.store)
                                   ELSE NoStore]
           /\ wrapper' = w.wrapper
           /\ last' = Last("createStore", s,
                           [reducer |-> reducer, middleware |-> middleware,
                            initialState |-> initialState], w)
    /\ UNCHANGED handles

\* store.dispatch(action), called by the application outside any listener.
Dispatch(s, action) ==
    /\ stores[s].created
    /\ LET w == dispatch([World(stores[s], wrapper, LiveRefs)
                            EXCEPT !.handles = handles], action)
       IN  /\ CountOK(w.store.currentState)
           /\ w.wrapper.forceCount <= MaxForce
           /\ stores' = [stores EXCEPT ![s] = w.store]
           /\ handles' = w.handles
           /\ wrapper' = w.wrapper
           /\ last' = Last("dispatch", s, action, w)

\* const unsubscribe = store.subscribe(listener)
Subscribe(s, listener) ==
    /\ stores[s].created
    /\ Len(handles) < MaxSubs
    /\ stores' = [stores EXCEPT
                    ![s] = subscribe(@, listener, Len(handles) + 1)]
    /\ handles' = Append(handles, [store |-> s, listener |-> listener,
                                   called |-> FALSE])
    /\ last' = Last("subscribe", s, listener, Quiet)
    /\ UNCHANGED wrapper

\* unsubscribe(), for the h-th function subscribe returned; called is whether
\* it had been called before.
Unsubscribe(h) ==
    /\ h \in 1..Len(handles)
    /\ LET s == handles[h].store
       IN  /\ stores' = [stores EXCEPT
                            ![s] = unSubscribe(@, handles[h].listener)]
           /\ last' = Last("unsubscribe", s,
                           [h |-> h, called |-> handles[h].called], Quiet)
    /\ handles' = [handles EXCEPT ![h].called = TRUE]
    /\ UNCHANGED wrapper

\* ------------------------------------------- the store and its subscribers

\* What the application passes to the calls.
ActionTypes == {"INCREMENT", "TOGGLE", "UNKNOWN"}
PlainActions == {Action(Str(type)) : type \in ActionTypes}
\* A number, a string, a boolean, undefined, null, {} .
NonActions == {Num(7), Str("INCREMENT"), Bool(TRUE), Undefined, Null,
               Action(Undefined)}
Increment == Action(Str("INCREMENT"))
Toggle == Action(Str("TOGGLE"))
Thunks ==
    {Thunk(<<>>, Num(7)), Thunk(<<Increment>>, Undefined),
     Thunk(<<Toggle, Increment>>, Num(7)), Thunk(<<Increment, Num(7)>>, Num(7)),
     Thunk(<<Thunk(<<Toggle>>, Num(7))>>, Undefined)}
Actions == PlainActions \cup NonActions \cup Thunks
Reducers == {Leaf("counterReducer"), Leaf("toggleReducer")}
InitialStates(reducer) ==
    IF reducer = Leaf("counterReducer")
    THEN {Undefined, Obj(1, [count |-> Num(1)])}
    ELSE {Undefined, Bool(TRUE)}
Listeners == {PlainListener(1), PlainListener(2)}

Next ==
    \/ \E reducer \in Reducers, middleware \in BOOLEAN :
         \E initialState \in InitialStates(reducer) :
            CreateStore(1, reducer, initialState, middleware)
    \/ \E action \in Actions : Dispatch(1, action)
    \/ \E listener \in Listeners : Subscribe(1, listener)
    \/ \E h \in 1..MaxSubs : Unsubscribe(h)

Spec == Init /\ [][Next]_vars

\* ------------------------------------------------- stores of combined reducers

\* const rootReducer = combineReducers(reducers); rootReducer(state, action),
\* called by the application itself.
CallMainReducer(reducers, state, action) ==
    /\ last' = [s |-> 1, op |-> "mainReducer",
                arg |-> [action |-> action, state |-> state,
                         reducers |-> reducers],
                result |-> mainReducer(reducers, state, action, Refs(state))]
    /\ UNCHANGED <<stores, handles, wrapper>>

Slice(key, reducer) == [key |-> key, reducer |-> reducer]
\* The mappings given to combineReducers, as their entries in key order.
SliceReducers ==
    {<<Slice("counter", "counterReducer"), Slice("flag", "toggleReducer")>>,
     <<Slice("left", "counterReducer"), Slice("right", "counterReducer")>>,
     <<Slice("flag", "toggleReducer")>>}
\* State objects: slices present, missing, and a key no reducer is named for.
StateObjects ==
    {Obj(1, NoFields),
     Obj(1, [counter |-> Obj(2, [count |-> Num(1)]), flag |-> Bool(TRUE)]),
     Obj(1, [flag |-> Bool(TRUE)]),
     Obj(1, [left |-> Obj(2, [count |-> Num(0)]), legacy |-> Num(1)]),
     Obj(1, [left |-> Obj(2, [count |-> Num(1)]),
             right |-> Obj(3, [count |-> Num(0)])])}
\* createStore(rootReducer) and createStore(rootReducer, undefined) too.
CombinedInitialStates == StateObjects \cup {Undefined}

NextCombine ==
    \/ \E reducers \in SliceReducers, initialState \in CombinedInitialStates :
            CreateStore(1, combineReducers(reducers), initialState, FALSE)
    \/ \E action \in PlainActions : Dispatch(1, action)
    \/ \E reducers \in SliceReducers, state \in StateObjects,
            action \in PlainActions \cup {InitAction} :
            CallMainReducer(reducers, state, action)

SpecCombine == Init /\ [][NextCombine]_vars

\* ------------------------------------------------------ the Connect wrapper

\* Mutant of cleanup: the effect returns no cleanup.
cleanup_Missing(store, listener) == store

\* return () => { unsubscribe() }: the effect's cleanup, for the store the
\* effect subscribed to and the listener it made.
cleanup(store, listener) == unSubscribe(store, listener)

\* The stores after the cleanup of the wrapper's latest effect, if it ran one.
AfterCleanup ==
    IF wrapper.unsubscribe = 0 THEN stores
    ELSE LET h == handles[wrapper.unsubscribe]
         IN  [stores EXCEPT ![h.store] = cleanup(@, h.listener)]

\* The unSubscribe functions after that cleanup called the wrapper's.
HandlesAfterCleanup ==
    IF wrapper.unsubscribe = 0 THEN handles
    ELSE [handles EXCEPT ![wrapper.unsubscribe].called = TRUE]

\* The first render of a wrapper under a Provider of store s:
\*     const store = useContext(GlobalContext);
\*     const stateProps = mstp(store.getState());
\*     const previousStateRef = useRef(stateProps);
\*     const [_, forComponentUpdate] = useReducer(x => x + 1, 0)
\*     useEffect(..., [store])
Mount(s) ==
    /\ ~wrapper.mounted
    /\ stores[s].created
    /\ LET stateProps == mstp(stores[s].currentState, LiveRefs)
       IN  wrapper' = [previousStateRef |-> stateProps,
                       forceCount |-> 0, renderPending |-> FALSE,
                       store |-> s, stateProps |-> stateProps,
                       mounted |-> TRUE, effectPending |-> TRUE,
                       unsubscribe |-> 0]
    /\ last' = Last("mount", s, s, Quiet)
    /\ UNCHANGED <<stores, handles>>

\* A later render, forced or caused by the parent, under a Provider of store
\* s; the effects of the render before have run.  useRef keeps its object,
\* and the effect is scheduled again when store is another one.
Render(s) ==
    /\ wrapper.mounted
    /\ ~wrapper.effectPending
    /\ stores[s].created
    /\ wrapper' = [wrapper EXCEPT
                     !.store = s,
                     !.stateProps = mstp(stores[s].currentState, LiveRefs),
                     !.renderPending = FALSE,
                     !.effectPending = (s # wrapper.store)]
    /\ last' = Last("render", s, wrapper.store, Quiet)
    /\ UNCHANGED <<stores, handles>>

\* The scheduled effect: the cleanup of the effect before, then
\*     const unsubscribe = store.subscribe(() => { ... })
RunEffect ==
    /\ wrapper.mounted
    /\ wrapper.effectPending
    /\ Len(handles) < MaxSubs
    /\ LET reg == Len(handles) + 1
           listener == ConnectListener(reg)
       IN  /\ stores' = [AfterCleanup EXCEPT
                            ![wrapper.store] = subscribe(@, listener, reg)]
           /\ handles' = Append(HandlesAfterCleanup,
                                [store |-> wrapper.store, listener |-> listener,
                                 called |-> FALSE])
           /\ wrapper' = [wrapper EXCEPT !.effectPending = FALSE,
                                         !.unsubscribe = reg]
    /\ last' = Last("effect", wrapper.store, wrapper.unsubscribe, Quiet)

\* The wrapper is torn down: the cleanup of its latest effect runs.
Unmount ==
    /\ wrapper.mounted
    /\ stores' = AfterCleanup
    /\ handles' = HandlesAfterCleanup
    /\ wrapper' = NoWrapper
    /\ last' = Last("unmount", wrapper.store, wrapper.unsubscribe, Quiet)

\* The actions dispatched to the stores a wrapper reads: one that changes the
\* count and one that leaves it.
Unknown == Action(Str("UNKNOWN"))

\* Two stores of a number, made before any component is rendered:
\*     createStore(numberReducer) and createStore(numberReducer, 1)
InitConnect ==
    /\ stores = [s \in StoreIds |->
                   Created(createStore(Leaf("numberReducer"),
                                       IF s = 1 THEN Undefined ELSE Num(1),
                                       FALSE, NoWrapper, {}).store)]
    /\ handles = <<>>
    /\ wrapper = NoWrapper
    /\ last = [op |-> "none"]

NextConnect ==
    \/ \E s \in StoreIds, action \in {Increment, Unknown} : Dispatch(s, action)
    \/ \E s \in StoreIds : Mount(s)
    \/ \E s \in StoreIds : Render(s)
    \/ RunEffect
    \/ Unmount

SpecConnect == InitConnect /\ [][NextConnect]_vars

\* ------------------------------------------------------------ shallowEqual

\* shallowEqual(objA, objB), called on two values.
CallShallowEqual(objA, objB) ==
    /\ last' = [s |-> 1, op |-> "shallowEqual",
                arg |-> [objA |-> objA, objB |-> objB],
                result |-> shallowEqual(objA, objB)]
    /\ UNCHANGED <<stores, handles, wrapper>>

\* Primitives, null, a function, and objects: empty ones, ones of equal and of
\* different keys and values, a field that is undefined, and objects that hold
\* another object: the same one before and after its count was changed in
\* place (reference 20), and an equal one of another reference.
ShallowValues ==
    {Undefined, Null, Num(0), Num(1), Str("a"), Bool(TRUE),
     Thunk(<<>>, Undefined),
     Obj(1, NoFields), Obj(2, NoFields),
     Obj(3, [x |-> Num(1)]), Obj(4, [x |-> Num(1)]), Obj(5, [x |-> Num(0)]),
     Obj(6, [x |-> Num(1), y |-> Undefined]), Obj(7, [y |-> Num(1)]),
     Obj(8, [x |-> Undefined]), Obj(9, [y |-> Undefined]),
     Obj(10, [x |-> Obj(20, [count |-> Num(0)])]),
     Obj(11, [x |-> Obj(20, [count |-> Num(1)])]),
     Obj(12, [x |-> Obj(21, [count |-> Num(0)])])}

NextShallow ==
    \E objA \in ShallowValues, objB \in ShallowValues :
        CallShallowEqual(objA, objB)

SpecShallow == Init /\ [][NextShallow]_vars

\* ------------------------------------------- listeners that act on the store

\* Listeners that observe, throw, call the unSubscribe function of the second
\* subscribe call, and dispatch from inside a notification.
ActingListeners ==
    {PlainListener(1), ThrowingListener(2), UnsubscribingListener(3, 2),
     DispatchingListener(4, Num(1), Increment)}
\* createStore(numberReducer) and createStore(strictReducer)
NumberReducers == {Leaf("numberReducer"), Leaf("strictReducer")}

NextListeners ==
    \/ \E reducer \in NumberReducers : CreateStore(1, reducer, Undefined, FALSE)
    \/ \E action \in {Increment, Unknown} : Dispatch(1, action)
    \/ \E listener \in ActingListeners : Subscribe(1, listener)
    \/ \E h \in 1..MaxSubs : Unsubscribe(h)

SpecListeners == Init /\ [][NextListeners]_vars

\* ------------------------------------------------------- claims on the store

\* The store the latest call was made on, as it is now.
Now == stores[last.s]

\* The list entries of store s whose subscribe call's unsubscribe function has
\* not been called, and the listener functions they hold.
LiveRegs(s) == {h \in 1..Len(handles) : handles[h].store = s /\ ~handles[h].called}
LiveFns(s) == {handles[h].listener : h \in LiveRegs(s)}
\* The first subscribe call that passed listener fn.
FirstReg(fn) == CHOOSE h \in 1..Len(handles) :
                    /\ handles[h].listener = fn
                    /\ \A g \in 1..(h - 1) : handles[g].listener # fn
\* How often listener fn was invoked in the latest call.
Invocations(fn) == Cardinality({i \in 1..Len(last.callLog) : last.callLog[i].fn = fn})

\* C1: the state right after createStore is reducer(initialState, {type:'@INIT'});
\* after a dispatch of a plain action the state is reducer(state before, action),
\* and the dispatch returns the action it was given.
C1_DispatchAppliesReducer ==
    /\ last.op = "createStore" =>
          /\ last.err = NoError
          /\ Now.created
          /\ Now.currentState =
                Reduce(last.arg.reducer, last.arg.initialState, InitAction,
                       Refs(last.arg.initialState)).val
    /\ (last.op = "dispatch" /\ last.arg \in PlainActions) =>
          /\ last.err = NoError
          /\ last.ret = last.arg
          /\ Now.currentState =
                Reduce(last.pre.rootReducer, last.pre.currentState, last.arg,
                       Refs(last.pre.currentState)).val

\* C1 witness: a second increment of a counter store, which was 1 and is 2.
C1_Witness ==
    /\ last.op = "dispatch"
    /\ last.arg = Increment
    /\ last.pre.rootReducer = Leaf("counterReducer")
    /\ last.pre.currentState.fs.count = Num(1)
    /\ Now.currentState.fs.count = Num(2)

\* C2: a number, string, boolean or undefined is rejected with the
\* InvalidActionShape error, an object without a type with MissingActionType;
\* the reducer is not called, no listener runs, state and listeners stay.
C2_BadActionRejected ==
    last.op = "dispatch" =>
      /\ last.arg \in {Num(7), Str("INCREMENT"), Bool(TRUE), Undefined} =>
            /\ last.err = InvalidActionShape
            /\ last.reducerLog = <<>> /\ last.callLog = <<>>
            /\ Now = last.pre
      /\ last.arg = Action(Undefined) =>
            /\ last.err = MissingActionType
            /\ last.reducerLog = <<>> /\ last.callLog = <<>>
            /\ Now = last.pre

\* C2 witness: {} dispatched to a store with two subscribed listeners.
C2_Witness ==
    /\ last.op = "dispatch"
    /\ last.arg = Action(Undefined)
    /\ last.err = MissingActionType
    /\ Len(Now.listeners) = 2

\* C3 (as claimed): a dispatch of a plain action invokes every listener that
\* is subscribed (some subscribe call of it has not been unsubscribed) exactly
\* once, in the order of subscription, and no listener that is not.
C3_EachSubscribedOnceInOrder ==
    (last.op = "dispatch" /\ last.arg \in PlainActions) =>
      /\ \A fn \in LiveFns(last.s) : Invocations(fn) = 1
      /\ \A i \in 1..Len(last.callLog) : last.callLog[i].fn \in LiveFns(last.s)
      /\ \A i, j \in 1..Len(last.callLog) :
            i < j => FirstReg(last.callLog[i].fn) < FirstReg(last.callLog[j].fn)

\* Whether dispatch takes the value as a plain action.
IsPlain(action) ==
    TypeOf(action) = "object" /\ action.t # "null"
        /\ TypeOf(action.type) # "undefined"

\* The plain actions a dispatched value hands to dispatch, in order, up to the
\* first value dispatch rejects (ok: none was rejected).
RECURSIVE Dispatched(_)
RECURSIVE DispatchedFrom(_, _)
DispatchedFrom(acts, i) ==
    IF i > Len(acts) THEN [ok |-> TRUE, seq |-> <<>>]
    ELSE LET head == Dispatched(acts[i])
             rest == DispatchedFrom(acts, i + 1)
         IN  IF ~head.ok THEN head
             ELSE [ok |-> rest.ok, seq |-> head.seq \o rest.seq]
Dispatched(action) ==
    IF TypeOf(action) = "function" THEN DispatchedFrom(action.acts, 1)
    ELSE IF IsPlain(action) THEN [ok |-> TRUE, seq |-> <<action>>]
    ELSE [ok |-> FALSE, seq |-> <<>>]

\* A value without the identities of its objects.
RECURSIVE Strip(_)
Strip(v) ==
    IF "ref" \in DOMAIN v THEN [k \in DOMAIN v.fs |-> Strip(v.fs[k])] ELSE v

\* The reducer applied to state for the actions of seq in turn, from index i.
RECURSIVE Fold(_, _, _, _)
Fold(reducer, state, seq, i) ==
    IF i > Len(seq) THEN state
    ELSE Fold(reducer, Reduce(reducer, state, seq[i], Refs(state)).val, seq, i + 1)

\* C4: with a middleware, a dispatched function is called once and its result
\* returned; it never reaches the reducer; the reducer receives exactly the
\* plain actions the function dispatches, the state is the reducer folded over
\* them, and the listeners are notified once per such action (a function that
\* dispatches nothing leaves the store as it was and notifies nobody).
C4_ThunkPath ==
    (last.op = "dispatch" /\ last.pre.middleware /\ last.arg \in Thunks) =>
      LET d == Dispatched(last.arg)
          n == Len(last.pre.listeners)
      IN  /\ Cardinality({i \in 1..Len(last.thunkLog) :
                              last.thunkLog[i] = last.arg}) = 1
          /\ d.ok => (last.err = NoError /\ last.ret = last.arg.ret)
          /\ \A i \in 1..Len(last.reducerLog) :
                TypeOf(last.reducerLog[i]) # "function"
          /\ last.reducerLog = d.seq
          /\ Strip(Now.currentState) =
                Strip(Fold(last.pre.rootReducer, last.pre.currentState, d.seq, 1))
          /\ Now.listeners = last.pre.listeners
          /\ Len(last.callLog) = Len(d.seq) * n
          /\ \A i \in 1..Len(last.callLog) :
                last.callLog[i] = last.pre.listeners[((i - 1) % n) + 1]
          /\ d.seq = <<>> => Now = last.pre

\* C4 witness: a function that dispatches one INCREMENT, with two listeners.
C4_Witness ==
    /\ last.op = "dispatch"
    /\ last.pre.middleware
    /\ last.arg = Thunk(<<Increment>>, Undefined)
    /\ last.reducerLog = <<Increment>>
    /\ Len(last.callLog) = 2
    /\ last.ret = Undefined

\* C7 (as claimed): an unsubscribe function removes the one list entry its
\* subscribe call made and leaves the others in their order; called again, it
\* changes nothing.
C7_UnsubscribeRemovesOwnEntry ==
    last.op = "unsubscribe" =>
      /\ ~last.arg.called =>
            Now.listeners = SelectSeq(last.pre.listeners,
                                      LAMBDA item : item.reg # last.arg.h)
      /\ last.arg.called => Now = last.pre

\* C8 (as claimed): no listener function is in a listener list twice, and a
\* dispatch of a plain action invokes no listener function more than once.
C8_ListenersAreASet ==
    /\ \A s \in StoreIds : stores[s].created =>
          \A i, j \in 1..Len(stores[s].listeners) :
            i # j => stores[s].listeners[i].fn # stores[s].listeners[j].fn
    /\ (last.op = "dispatch" /\ last.arg \in PlainActions) =>
          \A i \in 1..Len(last.callLog) : Invocations(last.callLog[i].fn) = 1

\* C12 (as claimed): dispatch(null) fails with the InvalidActionShape error and
\* no other; the reducer is not called, no listener runs, state and listeners
\* stay.
C12_NullRejectedAsShape ==
    (last.op = "dispatch" /\ last.arg = Null) =>
      /\ last.err = InvalidActionShape
      /\ last.reducerLog = <<>> /\ last.callLog = <<>>
      /\ Now = last.pre

\* ------------------------------------- claims on listeners that act on the store

\* The latest call was a dispatch of a plain action whose reducer call returned.
Reduced ==
    /\ last.op = "dispatch"
    /\ last.arg \in PlainActions
    /\ Reduce(last.pre.rootReducer, last.pre.currentState, last.arg, {}).ok
\* The state the reducer returned for the dispatched action.
Produced ==
    Reduce(last.pre.rootReducer, last.pre.currentState, last.arg, {}).val

\* C11: in a dispatch of a plain action during which no listener dispatches,
\* getState() returns the state the reducer produced for that action at every
\* listener invocation, from the first on, and still when dispatch returns.
C11_ListenersReadNewState ==
    (Reduced /\ Len(last.reducerLog) = 1) =>
      /\ Len(last.stateLog) = Len(last.callLog)
      /\ \A i \in 1..Len(last.stateLog) : last.stateLog[i] = Produced
      /\ Now.currentState = Produced

\* C11 witness: an INCREMENT from 0 to 1 that invoked two listeners.
C11_Witness ==
    /\ Reduced
    /\ Len(last.reducerLog) = 1
    /\ last.pre.currentState = Num(0)
    /\ last.stateLog = <<Num(1), Num(1)>>
    /\ last.err = NoError

\* The index of the first entry of a listener list whose listener throws.
FirstThrowing(list) ==
    CHOOSE k \in 1..Len(list) :
        /\ list[k].fn.kind = "throwing"
        /\ \A j \in 1..(k - 1) : list[j].fn.kind # "throwing"
\* A listener that throws was invoked in the latest call, a dispatch.
Thrown ==
    /\ last.op = "dispatch"
    /\ \E i \in 1..Len(last.callLog) : last.callLog[i].fn.kind = "throwing"

\* C13: when a listener throws in the notification pass of a plain action, the
\* caller of dispatch gets that error, nothing is invoked after the throw, and
\* the state is the one the reducer computed.  When no listener dispatches,
\* the entries invoked are exactly those of the list up to the throwing one,
\* each once and in order.
C13_ThrowAbortsPass ==
    /\ Thrown =>
          /\ last.err = ListenerError
          /\ last.callLog[Len(last.callLog)].fn.kind = "throwing"
          /\ \A i \in 1..(Len(last.callLog) - 1) :
                last.callLog[i].fn.kind # "throwing"
          /\ Now.currentState =
                Fold(last.pre.rootReducer, last.pre.currentState,
                     last.reducerLog, 1)
    /\ (Reduced /\ Len(last.reducerLog) = 1
            /\ \E k \in 1..Len(last.pre.listeners) :
                  last.pre.listeners[k].fn.kind = "throwing") =>
          /\ Thrown
          /\ last.callLog = SubSeq(last.pre.listeners, 1,
                                   FirstThrowing(last.pre.listeners))
          /\ Now.currentState = Produced

\* C13 witness: the second of three listeners throws in an INCREMENT from 0.
C13_Witness ==
    /\ Thrown
    /\ Len(last.pre.listeners) = 3
    /\ Len(last.callLog) = 2
    /\ last.callLog[1].fn.kind = "plain"
    /\ last.pre.currentState = Num(0)
    /\ Now.currentState = Num(1)
    /\ last.err = ListenerError

\* The latest call was a dispatch of a plain action whose reducer call threw.
ReducerThrew ==
    /\ last.op = "dispatch"
    /\ last.arg \in PlainActions
    /\ ~Reduce(last.pre.rootReducer, last.pre.currentState, last.arg, {}).ok

\* C18: when the reducer throws in a dispatch of a plain action, the caller
\* gets the reducer's error, the store keeps the state (and the listeners) it
\* had before the call, and no listener is invoked.
C18_ReducerThrow ==
    ReducerThrew =>
      /\ last.err = ReducerError
      /\ Now = last.pre
      /\ last.callLog = <<>>
      /\ last.ret = Undefined

\* C18 witness: an action the reducer rejects, at state 1 with two listeners.
C18_Witness ==
    /\ ReducerThrew
    /\ last.pre.currentState = Num(1)
    /\ Len(last.pre.listeners) = 2
    /\ Now.currentState = Num(1)

\* The index of the first entry of a listener list whose listener dispatches
\* when getState() is state; 0 when there is none.
FirstDispatching(list, state) ==
    LET fires == {k \in 1..Len(list) :
                    list[k].fn.kind = "dispatching" /\ list[k].fn.when = state}
    IN  IF fires = {} THEN 0
        ELSE CHOOSE k \in fires : \A j \in fires : k <= j

\* C19: with listeners that observe or dispatch, when a listener dispatches a
\* plain action during the pass of a dispatch, the reducer receives the outer
\* and then the nested action, the nested one on the state the outer left;
\* the final state is the reducer folded over both; the nested pass invokes
\* every entry before the outer pass goes on, so that each entry is invoked
\* twice, those up to the dispatching one reading the outer state first and
\* all others the nested state both times.
C19_NestedDispatch ==
    (Reduced /\ FirstDispatching(last.pre.listeners, Produced) # 0
        /\ \A k \in 1..Len(last.pre.listeners) :
              last.pre.listeners[k].fn.kind \in {"plain", "dispatching"}) =>
      LET list == last.pre.listeners
          n == Len(list)
          d == FirstDispatching(list, Produced)
          nested == list[d].fn.action
          final == Reduce(last.pre.rootReducer, Produced, nested, {}).val
      IN  /\ last.err = NoError
          /\ last.ret = last.arg
          /\ last.reducerLog = <<last.arg, nested>>
          /\ Now.currentState = final
          /\ Now.currentState =
                Fold(last.pre.rootReducer, last.pre.currentState,
                     last.reducerLog, 1)
          /\ Now.listeners = list
          /\ last.callLog = SubSeq(list, 1, d) \o list \o SubSeq(list, d + 1, n)
          /\ last.stateLog =
                [i \in 1..(2 * n) |-> IF i <= d THEN Produced ELSE final]

\* C19 witness: the second of three listeners dispatches INCREMENT when the
\* outer INCREMENT made the state 1; six invocations, the state is 2.
C19_Witness ==
    /\ Reduced
    /\ Len(last.pre.listeners) = 3
    /\ FirstDispatching(last.pre.listeners, Produced) = 2
    /\ last.pre.listeners[1].fn.kind = "plain"
    /\ last.pre.listeners[3].fn.kind = "plain"
    /\ Len(last.callLog) = 6
    /\ last.stateLog = <<Num(1), Num(1), Num(2), Num(2), Num(2), Num(2)>>
    /\ Now.currentState = Num(2)

\* C17 (as claimed): no list entry is invoked once the unSubscribe function of
\* the subscribe call that made it has been called, be it before the dispatch
\* or by a listener invoked earlier in the same notification pass.
C17_NeverInvokedAfterUnsubscribe ==
    last.op = "dispatch" =>
      \A i \in 1..Len(last.callLog) :
        LET h == last.callLog[i].reg
        IN  /\ ~last.handlesBefore[h].called
            /\ \A j \in 1..Len(last.unsubLog) :
                  last.unsubLog[j].h = h => last.unsubLog[j].at >= i

\* ------------------------------------------------- claims on combineReducers

\* The keys of a mapping given to combineReducers.
SliceKeys(reducers) == {reducers[i].key : i \in 1..Len(reducers)}
\* Whether `got` is what reducer number i of the mapping returns for the slice
\* of state and the action: the same contents, and the slice object itself
\* exactly when the reducer returns its input.
IsSliceResult(reducers, i, state, action, got) ==
    LET key == reducers[i].key
        slice == IF state.t = "object" /\ key \in DOMAIN state.fs
                 THEN state.fs[key] ELSE Undefined
        want == LeafReducer(reducers[i].reducer, slice, action, Refs(state))
    IN  /\ Strip(got) = Strip(want)
        /\ ObjectIs(got, slice) <=> ObjectIs(want, slice)

\* C5: combineReducers(R)(S, X), for a state object S, returns a new object,
\* never S or an object of S, with exactly the keys of R, each holding
\* R[k](S[k], X) where a slice S lacks is passed as undefined.
C5_CombinedReducer ==
    /\ last.op = "mainReducer" =>
          /\ last.result.ok
          /\ last.result.val.t = "object"
          /\ last.result.val.ref \notin Refs(last.arg.state)
          /\ Keys(last.result.val) = SliceKeys(last.arg.reducers)
          /\ \A i \in 1..Len(last.arg.reducers) :
                IsSliceResult(last.arg.reducers, i, last.arg.state,
                              last.arg.action,
                              last.result.val.fs[last.arg.reducers[i].key])
    /\ (last.op = "dispatch" /\ last.pre.rootReducer.kind = "combined"
            /\ last.arg \in PlainActions) =>
          /\ last.err = NoError
          /\ Now.currentState.ref \notin Refs(last.pre.currentState)
          /\ Keys(Now.currentState) = SliceKeys(last.pre.rootReducer.reducers)
          /\ \A i \in 1..Len(last.pre.rootReducer.reducers) :
                IsSliceResult(last.pre.rootReducer.reducers, i,
                              last.pre.currentState, last.arg,
                              Now.currentState.fs[last.pre.rootReducer.reducers[i].key])

\* C5 witness: an action no slice reducer knows, on a state that lacks the
\* counter slice: a new object whose flag is the old one and whose counter is
\* the reducer's default.
C5_Witness ==
    /\ last.op = "mainReducer"
    /\ last.arg.action = Action(Str("UNKNOWN"))
    /\ last.arg.state = Obj(1, [flag |-> Bool(TRUE)])
    /\ Len(last.arg.reducers) = 2
    /\ last.result.val.ref # 1
    /\ Strip(last.result.val) = [counter |-> [count |-> Num(0)], flag |-> Bool(TRUE)]

\* C6 (as claimed): createStore(combineReducers(R), initialState) succeeds
\* for an initial state object and for undefined, and every slice k then
\* holds R[k](initialState's slice k or undefined, {type:'@INIT'}).
C6_InitPopulatesSlices ==
    (last.op = "createStore" /\ last.arg.reducer.kind = "combined") =>
      /\ last.err = NoError
      /\ Now.created
      /\ Keys(Now.currentState) = SliceKeys(last.arg.reducer.reducers)
      /\ \A i \in 1..Len(last.arg.reducer.reducers) :
            IsSliceResult(last.arg.reducer.reducers, i, last.arg.initialState,
                          InitAction,
                          Now.currentState.fs[last.arg.reducer.reducers[i].key])

\* C20: a store made with combineReducers(R) holds, from its construction on,
\* an object whose keys are exactly those of R; a key of the initial state
\* that R has no reducer for is gone after the @INIT dispatch.
C20_KeysAreSliceKeys ==
    /\ \A s \in StoreIds :
          (stores[s].created /\ stores[s].rootReducer.kind = "combined") =>
            /\ stores[s].currentState.t = "object"
            /\ Keys(stores[s].currentState) =
                  SliceKeys(stores[s].rootReducer.reducers)
    /\ (last.op = "createStore" /\ Now.created
            /\ last.arg.reducer.kind = "combined") =>
          \A k \in Keys(last.arg.initialState) :
             k \notin SliceKeys(last.arg.reducer.reducers) =>
                k \notin Keys(Now.currentState)

\* C20 witness: a store of the slices left and right made from an initial
\* state with the keys left and legacy.
C20_Witness ==
    /\ last.op = "createStore"
    /\ Now.created
    /\ Keys(last.arg.initialState) = {"left", "legacy"}
    /\ Keys(Now.currentState) = {"left", "right"}

\* ---------------------------------------------------------- claims on Connect

\* The latest call was a dispatch that invoked the wrapper's listener.
Notified ==
    /\ last.op = "dispatch"
    /\ \E i \in 1..Len(last.callLog) : last.callLog[i].fn.kind = "connect"

\* What a notification must have done to the wrapper: nothing when the count
\* of the store's state is the retained one; else retain a new object of that
\* count and force one render.
C9_Notification ==
    Notified =>
      LET before == last.wrapperBefore
      IN  IF Now.currentState = before.previousStateRef.fs.count
          THEN /\ wrapper.forceCount = before.forceCount
               /\ wrapper.renderPending = before.renderPending
               /\ wrapper.previousStateRef = before.previousStateRef
          ELSE /\ wrapper.forceCount = before.forceCount + 1
               /\ wrapper.renderPending
               /\ wrapper.previousStateRef.ref # before.previousStateRef.ref
               /\ wrapper.previousStateRef.fs = [count |-> Now.currentState]

\* Two notifications in a row from one store: the second forces no render when
\* the state maps to the same count as after the first, and one when not.
C9_Consecutive ==
    (Notified /\ Notified' /\ last'.s = last.s) =>
      IF stores'[last.s].currentState = stores[last.s].currentState
      THEN wrapper'.forceCount = wrapper.forceCount
      ELSE wrapper'.forceCount = wrapper.forceCount + 1

\* C9: on every notification of a mounted and subscribed wrapper, props that
\* are shallow-equal to the retained ones force no render and keep the
\* retained object; others replace it and force exactly one render.  Of two
\* updates in a row that map to one count the second forces none, and a
\* following change of the count forces one.
C9_ShallowEqualGate == []C9_Notification /\ [][C9_Consecutive]_vars

\* C9 witness: after a forced render, an update that maps to the retained count
\* and forces none.
C9_Witness ==
    /\ Notified
    /\ last.arg = Unknown
    /\ last.wrapperBefore.forceCount = 1
    /\ wrapper.forceCount = 1
    /\ wrapper.previousStateRef.fs.count = Now.currentState

\* The entries of store s's listener list made by a Connect wrapper.
ConnectEntries(s) ==
    {i \in 1..Len(stores[s].listeners) : stores[s].listeners[i].fn.kind = "connect"}

C14_RetainedIsLastRendered ==
    (wrapper.mounted /\ ~wrapper.renderPending) =>
        shallowEqual(wrapper.previousStateRef, wrapper.stateProps)

\* C16 (as claimed): whenever the wrapper is mounted, its effect has run and no
\* forced render is outstanding, the stateProps it last rendered are
\* shallow-equal to mstp(store.getState()) of the store it reads.
C16_RenderedIsCurrent ==
    (wrapper.mounted /\ ~wrapper.effectPending /\ ~wrapper.renderPending) =>
        shallowEqual(wrapper.stateProps,
                     mstp(stores[wrapper.store].currentState, LiveRefs))
\* A non-null object.
IsObject(v) == v.t = "object"
\* The two values are one value or one object.
Identical(a, b) == a.t = b.t /\ (IF IsObject(a) THEN a.ref = b.ref ELSE a = b)
\* Two objects of the same keys, each holding identical values in both.
SameTopLevel(a, b) ==
    /\ IsObject(a) /\ IsObject(b)
    /\ Cardinality(DOMAIN a.fs) = Cardinality(DOMAIN b.fs)
    /\ \A k \in DOMAIN a.fs : k \in DOMAIN b.fs /\ Identical(a.fs[k], b.fs[k])

\* C15: shallowEqual(a, b) is true exactly when a and b are identical or are
\* objects with the same number of keys, every key of a being a key of b with
\* an identical value; it is reflexive and symmetric; it is true for two
\* objects that hold the same reference under each key although what that
\* reference holds differs.
C15_ShallowEqual ==
    last.op = "shallowEqual" =>
      LET a == last.arg.objA
          b == last.arg.objB
      IN  /\ last.result <=> (Identical(a, b) \/ SameTopLevel(a, b))
          /\ a = b => last.result
          /\ last.result <=> shallowEqual(b, a)
          /\ (IsObject(a) /\ IsObject(b) /\ DOMAIN a.fs = DOMAIN b.fs
                /\ \A k \in DOMAIN a.fs :
                      /\ IsObject(a.fs[k]) /\ IsObject(b.fs[k])
                      /\ a.fs[k].ref = b.fs[k].ref) => last.result

\* C15 witness: two objects whose x is the same object, its count 0 in one
\* and 1 in the other.
C15_Witness ==
    /\ last.op = "shallowEqual"
    /\ last.arg.objA = Obj(10, [x |-> Obj(20, [count |-> Num(0)])])
    /\ last.arg.objB = Obj(11, [x |-> Obj(20, [count |-> Num(1)])])
    /\ last.result
====
